---- MODULE Spec2Model ----
(***************************************************************************)
(* A model of server.py, the Stack Overflow Teams MCP adapter: the HTML    *)
(* cleaner clean_html, the API client http_get and the five tool handlers. *)
(*                                                                         *)
(* A Python str is modelled as a sequence of characters, each character a  *)
(* one-character TLA+ string.  Two pseudo-characters stand for text whose  *)
(* spelling the handlers never inspect: "U+1F517" is the link emoji of the *)
(* format strings, "U+0060" is the backtick, and a bracketed name such as  *)
(* "[HTTPStatusError]" is the text str(e) of an exception of that class.   *)
(***************************************************************************)
EXTENDS Integers, Sequences, FiniteSets, TLC

VARIABLES
    TEAM,       \* the module global TEAM, read once from the environment
    inv,        \* the coroutine frame of every tool invocation
    html_text,  \* clean_html's argument, when clean_html is run on its own
    text,       \* clean_html's return value, when clean_html is run on its own
    cpc         \* where the stand-alone run of clean_html is: "off", "call", "return"

vars == <<TEAM, inv, html_text, text, cpc>>

----------------------------------------------------------------------------
(* Bounds of the model.                                                    *)

\* the longest items list an API response carries
MaxItems == 2
\* the number of pieces a stand-alone clean_html input is put together from
MaxPieces == 3
\* the number of tool invocations the transport runs concurrently
MaxConcurrent == 2

----------------------------------------------------------------------------
(* Python str operations.                                                  *)

Range(s) == {s[k] : k \in 1..Len(s)}

RECURSIVE Concat(_)
\* the concatenation of a sequence of strings (the pieces of an f-string)
Concat(ss) == IF ss = <<>> THEN <<>> ELSE Head(ss) \o Concat(Tail(ss))

StartsWith(s, p) == Len(p) <= Len(s) /\ SubSeq(s, 1, Len(p)) = p

EndsWith(s, p) == Len(p) <= Len(s) /\ SubSeq(s, Len(s) - Len(p) + 1, Len(s)) = p

Drop(s, n) == SubSeq(s, n + 1, Len(s))

\* old occurs in s
Contains(s, old) == \E k \in 0..(Len(s) - Len(old)) : SubSeq(s, k + 1, k + Len(old)) = old

RECURSIVE Replace(_, _, _)
\* str.replace(old, new) for a non-empty old: the occurrences of old, found
\* left to right without overlap, each replaced by new; the result is not
\* scanned again
Replace(s, old, new) ==
    IF Len(s) < Len(old) THEN s
    ELSE IF StartsWith(s, old) THEN new \o Replace(Drop(s, Len(old)), old, new)
    ELSE <<Head(s)>> \o Replace(Tail(s), old, new)

\* the whitespace characters of the model's alphabet that str.strip() removes
Whitespace == {" ", "\n", "\t", "\r", "\f"}

RECURSIVE LStrip(_)
LStrip(s) == IF s # <<>> /\ Head(s) \in Whitespace THEN LStrip(Tail(s)) ELSE s

RECURSIVE RStrip(_)
RStrip(s) ==
    IF s # <<>> /\ s[Len(s)] \in Whitespace THEN RStrip(SubSeq(s, 1, Len(s) - 1)) ELSE s

\* str.strip()
strip(s) == RStrip(LStrip(s))

RECURSIVE Digits(_)
\* the decimal digits of a natural number
Digits(n) ==
    LET d == <<"0", "1", "2", "3", "4", "5", "6", "7", "8", "9">>[(n % 10) + 1]
    IN  IF n < 10 THEN <<d>> ELSE Digits(n \div 10) \o <<d>>

\* str(n) of an int
IntStr(n) == IF n < 0 THEN <<"-">> \o Digits(0 - n) ELSE Digits(n)

----------------------------------------------------------------------------
(* html.unescape, for the named character references the model's alphabet  *)
(* can spell: amp, lt and gt, with and without the semicolon.  The         *)
(* alphabet has no "#", so numeric references do not arise.                *)

\* the characters that end the name of a character reference
NameStop == {"\t", "\n", "\f", " ", "<", "&", "#", ";"}

Html5Names ==
    { <<"a", "m", "p", ";">>, <<"a", "m", "p">>,
      <<"l", "t", ";">>, <<"l", "t">>,
      <<"g", "t", ";">>, <<"g", "t">> }

\* html.entities.html5[name]
html5(name) ==
    IF name[1] = "a" THEN <<"&">> ELSE IF name[1] = "l" THEN <<"<">> ELSE <<">">>

RECURSIVE NameLen(_, _)
\* how many characters of s, at most max, start it without a NameStop character
\* (the reference pattern matches names of 1 to 32 characters)
NameLen(s, max) ==
    IF s = <<>> \/ max = 0 \/ Head(s) \in NameStop THEN 0
    ELSE 1 + NameLen(Tail(s), max - 1)

\* html._replace_charref on the matched group s: the name itself, else its
\* longest proper prefix of two characters or more that is a name, else the
\* reference left as it was
replace_charref(s) ==
    IF s \in Html5Names THEN html5(s)
    ELSE LET xs == {x \in 2..(Len(s) - 1) : SubSeq(s, 1, x) \in Html5Names}
         IN  IF xs # {}
             THEN LET x == CHOOSE y \in xs : \A z \in xs : z <= y
                  IN  html5(SubSeq(s, 1, x)) \o Drop(s, x)
             ELSE <<"&">> \o s

RECURSIVE charref_sub(_)
\* html._charref.sub(_replace_charref, s): every match of "&name" with an
\* optional ";" replaced, scanning left to right
charref_sub(s) ==
    IF s = <<>> THEN <<>>
    ELSE IF Head(s) = "&"
    THEN LET rest == Tail(s)
             n == NameLen(rest, 32)
             semi == n < Len(rest) /\ rest[n + 1] = ";"
             g == SubSeq(rest, 1, IF semi THEN n + 1 ELSE n)
         IN  IF n = 0 THEN <<"&">> \o charref_sub(rest)
             ELSE replace_charref(g) \o charref_sub(Drop(rest, Len(g)))
    ELSE <<Head(s)>> \o charref_sub(Tail(s))

\* html.unescape(s)
unescape(s) == IF "&" \notin Range(s) THEN s ELSE charref_sub(s)

----------------------------------------------------------------------------
(* clean_html                                                              *)

TagP == <<"<", "p", ">">>
TagPEnd == <<"<", "/", "p", ">">>
TagCode == <<"<", "c", "o", "d", "e", ">">>
TagCodeEnd == <<"<", "/", "c", "o", "d", "e", ">">>
TagStrong == <<"<", "s", "t", "r", "o", "n", "g", ">">>
TagStrongEnd == <<"<", "/", "s", "t", "r", "o", "n", "g", ">">>
TagEm == <<"<", "e", "m", ">">>
TagEmEnd == <<"<", "/", "e", "m", ">">>

\* clean_html with the tag rules applied before the entities are decoded
clean_html_tags_first(s) ==
    LET t1 == Replace(Replace(s, TagP, <<>>), TagPEnd, <<"\n", "\n">>)
        t2 == Replace(Replace(t1, TagCode, <<"U+0060">>), TagCodeEnd, <<"U+0060">>)
        t3 == Replace(Replace(t2, TagStrong, <<"*", "*">>), TagStrongEnd, <<"*", "*">>)
        t4 == Replace(Replace(t3, TagEm, <<"*">>), TagEmEnd, <<"*">>)
    IN  strip(unescape(t4))

\* clean_html(html_text) for a str argument
clean_html(s) ==
    LET t0 == unescape(s)
        t1 == Replace(Replace(t0, TagP, <<>>), TagPEnd, <<"\n", "\n">>)
        t2 == Replace(Replace(t1, TagCode, <<"U+0060">>), TagCodeEnd, <<"U+0060">>)
        t3 == Replace(Replace(t2, TagStrong, <<"*", "*">>), TagStrongEnd, <<"*", "*">>)
        t4 == Replace(Replace(t3, TagEm, <<"*">>), TagEmEnd, <<"*">>)
    IN  strip(t4)

----------------------------------------------------------------------------
(* clean_html run on its own, on inputs put together from pieces.          *)

ExampleHtml ==
    <<"<", "p", ">", "H", "e", "l", "l", "o", " ", "<", "s", "t", "r", "o", "n", "g", ">",
      "w", "o", "r", "l", "d", "<", "/", "s", "t", "r", "o", "n", "g", ">", "<", "/", "p", ">">>

Pieces ==
    { TagP, TagPEnd, TagCode, TagStrongEnd, TagEm, <<"<", "u", "l", ">">>,
      <<"<">>, <<"p", ">">>, <<"&">>, <<"l", "t", ";">>, <<"a", "m", "p", ";">>,
      <<" ">>, <<"a">> }

PieceSeqs == UNION {[1..n -> Pieces] : n \in 0..MaxPieces}

CleanInputs == {Concat(ps) : ps \in PieceSeqs} \cup {ExampleHtml}

InitClean ==
    /\ TEAM = <<>>
    /\ inv = <<>>
    /\ html_text \in CleanInputs
    /\ text = <<>>
    /\ cpc = "call"

CleanHtml ==
    /\ cpc = "call"
    /\ text' = clean_html(html_text)
    /\ cpc' = "return"
    /\ UNCHANGED <<TEAM, inv, html_text>>

NextClean == CleanHtml

SpecClean == InitClean /\ [][NextClean]_vars

----------------------------------------------------------------------------
(* JSON values, as resp.json() returns them, and what Python does with     *)
(* them.  A field of an item is absent, null, a number or a string.        *)

Absent == [t |-> "absent", n |-> 0, s |-> <<>>]
Null == [t |-> "null", n |-> 0, s |-> <<>>]
Num(n) == [t |-> "num", n |-> n, s |-> <<>>]
Str(s) == [t |-> "str", n |-> 0, s |-> s]

\* dict.get(key, default): the default only when the key is absent
get(field, default) == IF field.t = "absent" THEN default ELSE field

\* dict.get(key): None when the key is absent
get_none(field) == get(field, Null)

\* the truth value Python gives a JSON value
Truthy(v) == (v.t = "str" /\ v.s # <<>>) \/ (v.t = "num" /\ v.n # 0)

\* the text an f-string puts in for a value
Fmt(v) ==
    IF v.t = "str" THEN v.s
    ELSE IF v.t = "num" THEN IntStr(v.n)
    ELSE <<"N", "o", "n", "e">>

\* the outcome of a call: a returned string, or a raised exception with str(e)
Ok(s) == [raised |-> FALSE, val |-> s]
Raise(msg) == [raised |-> TRUE, val |-> msg]

\* a text field put into the output as it came
uncleaned(v) ==
    IF v.t = "str" THEN Ok(v.s) ELSE Raise(<<"[TypeError]">>)

\* clean_html(v) called with a JSON value: html.unescape raises TypeError on
\* anything that is not a str
clean_html_call(v) ==
    IF v.t = "str" THEN Ok(clean_html(v.s)) ELSE Raise(<<"[TypeError]">>)

\* a join that ends every entry, the last one too, with the separator
join_trailing(sep, ss) == Concat([k \in 1..Len(ss) |-> ss[k] \o sep])

RECURSIVE join(_, _)
\* sep.join(ss)
join(sep, ss) ==
    IF ss = <<>> THEN <<>>
    ELSE IF Len(ss) = 1 THEN ss[1]
    ELSE ss[1] \o sep \o join(sep, Tail(ss))

\* a for loop that appends one entry per item: the first item whose entry
\* raises ends the loop with that exception
for_each(entries) ==
    LET bad == {k \in 1..Len(entries) : entries[k].raised}
    IN  IF bad # {}
        THEN Raise(entries[CHOOSE k \in bad : \A j \in bad : k <= j].val)
        ELSE Ok([k \in 1..Len(entries) |-> entries[k].val])

----------------------------------------------------------------------------
(* The API client.                                                         *)

\* a parsed JSON body: a dict, whose "items" is absent, null or a list, or
\* a body that is no dict
Body(kind, t, l) == [kind |-> kind, items |-> [t |-> t, l |-> l]]
NoBody == Body("none", "absent", <<>>)

\* what the network gives back for one request
WireOk(body) == [kind |-> "ok", body |-> body]
WireFail(kind) == [kind |-> kind, body |-> NoBody]

\* the outcome of http_get: the parsed body, or an exception
HttpOk(body) == [raised |-> FALSE, val |-> <<>>, data |-> body]
HttpRaise(msg) == [raised |-> TRUE, val |-> msg, data |-> NoBody]

\* http_get, from the wire response on: client.get raises on a network
\* failure or timeout, raise_for_status on a non-2xx status, resp.json() on
\* a body that is no JSON
http_get(wire) ==
    IF wire.kind = "network" THEN HttpRaise(<<"[ConnectError]">>)
    ELSE IF wire.kind = "timeout" THEN HttpRaise(<<"[ReadTimeout]">>)
    ELSE IF wire.kind = "status" THEN HttpRaise(<<"[HTTPStatusError]">>)
    ELSE IF wire.kind = "notjson" THEN HttpRaise(<<"[JSONDecodeError]">>)
    ELSE HttpOk(wire.body)

\* data.get("items"): AttributeError when data is no dict
data_get_items(data) ==
    IF data.kind # "dict" THEN Raise(<<"[AttributeError]">>) ELSE Ok(<<>>)

\* data.get("items") is None: an empty list passes
items_none(data) == data.items.t # "list"

\* not data.get("items"): an absent, null or empty items list
items_falsy(data) == data.items.t # "list" \/ data.items.l = <<>>

----------------------------------------------------------------------------
(* The tool handlers, from the point where http_get has come back.         *)

HttpErrorPrefix == <<"H", "T", "T", "P", " ", "E", "r", "r", "o", "r", ":", " ">>

NoQuestionsMsg ==
    <<"N", "o", " ", "r", "e", "l", "e", "v", "a", "n", "t", " ", "q", "u", "e", "s", "t",
      "i", "o", "n", "s", " ", "f", "o", "u", "n", "d", ".">>
NoAnswersMsg ==
    <<"N", "o", " ", "r", "e", "l", "e", "v", "a", "n", "t", " ", "a", "n", "s", "w", "e",
      "r", "s", " ", "f", "o", "u", "n", "d", ".">>
NoExcerptsMsg ==
    <<"N", "o", " ", "r", "e", "l", "e", "v", "a", "n", "t", " ", "e", "x", "c", "e", "r",
      "p", "t", "s", " ", "f", "o", "u", "n", "d", ".">>
NoTaggedMsg ==
    <<"N", "o", " ", "q", "u", "e", "s", "t", "i", "o", "n", "s", " ", "f", "o", "u", "n",
      "d", " ", "f", "o", "r", " ", "t", "h", "e", " ", "g", "i", "v", "e", "n", " ", "t",
      "a", "g", "s", ".">>
QuestionNotFoundMsg ==
    <<"Q", "u", "e", "s", "t", "i", "o", "n", " ", "n", "o", "t", " ", "f", "o", "u", "n",
      "d", ".">>

Hash == <<"#">>
Sep == <<"\n", "\n">>
ViewQuestion ==
    <<"\n", "U+1F517", " ", "[", "V", "i", "e", "w", " ", "Q", "u", "e", "s", "t", "i", "o",
      "n", "]", "(">>
ViewAnswer ==
    <<"\n", "U+1F517", " ", "[", "V", "i", "e", "w", " ", "A", "n", "s", "w", "e", "r", "]",
      "(">>
ViewFullPost ==
    <<"\n", "U+1F517", " ", "[", "V", "i", "e", "w", " ", "F", "u", "l", "l", " ", "P", "o",
      "s", "t", "]", "(">>

\* what a handler hands back: the string it returns, the exception it lets
\* escape (none does), and the entries it joined, when it rendered a list
Returned(s, entries) == [kind |-> "str", s |-> s, results |-> entries]
Escaped(msg) == [kind |-> "raise", s |-> msg, results |-> <<>>]
NoResult == [kind |-> "none", s |-> <<>>, results |-> <<>>]

\* a handler without its except clause
reraise(msg) == Escaped(msg)

\* except Exception as e: return f"HTTP Error: {str(e)}"
except_Exception(msg) == Returned(HttpErrorPrefix \o msg, <<>>)

\* f"https://{TEAM}.stackoverflowteams.com/c/{TEAM}/questions/{qid}"
question_url(team, qid) ==
    Concat(<< <<"h", "t", "t", "p", "s", ":", "/", "/">>, Fmt(team),
              <<".", "s", "t", "a", "c", "k", "o", "v", "e", "r", "f", "l", "o", "w", "t",
                "e", "a", "m", "s", ".", "c", "o", "m", "/", "c", "/">>, Fmt(team),
              <<"/", "q", "u", "e", "s", "t", "i", "o", "n", "s", "/">>, Fmt(qid) >>)

\* the link built whenever the item has a question_id key
link_if_present(team, item) ==
    IF item.question_id.t # "absent" THEN question_url(team, item.question_id) ELSE Hash

\* link = f"https://..." if qid else "#", with qid = item.get("question_id")
constructed_link(team, item) ==
    LET qid == get_none(item.question_id)
    IN  IF Truthy(qid) THEN question_url(team, qid) ELSE Hash

\* the loop body of stackoverflow_search_questions
question_entry(q) ==
    LET title == clean_html_call(get(q.title, Str(<<>>)))
        link == get(q.link, Str(Hash))
        body == clean_html_call(get(q.body, Str(<<>>)))
    IN  IF title.raised THEN title
        ELSE IF body.raised THEN body
        ELSE Ok(Concat(<< <<"#", "#", "#", " ">>, title.val, <<"\n">>, body.val,
                          ViewQuestion, Fmt(link), <<")">> >>))

\* the loop body of stackoverflow_search_answers
answer_entry(team, ans) ==
    LET excerpt == clean_html_call(get(ans.excerpt, Str(<<>>)))
        link == constructed_link(team, ans)
    IN  IF excerpt.raised THEN excerpt
        ELSE Ok(Concat(<< <<"*", "*", "A", "n", "s", "w", "e", "r", " ", "E", "x", "c", "e",
                            "r", "p", "t", ":", "*", "*", "\n">>, excerpt.val,
                          ViewAnswer, link, <<")">> >>))

\* the loop body of stackoverflow_search_excerpts
excerpt_entry(team, item) ==
    LET item_type == get(item.item_type, Str(<<"u", "n", "k", "n", "o", "w", "n">>))
        title == clean_html_call(get(item.title, Str(<<>>)))
        excerpt == clean_html_call(get(item.excerpt, Str(<<>>)))
        link == constructed_link(team, item)
    IN  IF title.raised THEN title
        ELSE IF excerpt.raised THEN excerpt
        ELSE Ok(Concat(<< <<"*", "*", "T", "y", "p", "e", ":", "*", "*", " ">>,
                          Fmt(item_type),
                          <<"\n", "*", "*", "T", "i", "t", "l", "e", ":", "*", "*", " ">>,
                          title.val, <<"\n">>, excerpt.val, ViewFullPost, link, <<")">> >>))

\* the loop body of stackoverflow_search_by_tags
tagged_entry(q) ==
    LET title == clean_html_call(get(q.title, Str(<<>>)))
        link == get(q.link, Str(Hash))
    IN  IF title.raised THEN title
        ELSE Ok(Concat(<< <<"*", "*">>, title.val, <<"*", "*">>, ViewQuestion, Fmt(link),
                          <<")">> >>))

\* the loop body of the answers loop of stackoverflow_fetch_question_by_id
score_entry(ans) ==
    LET body == clean_html_call(get(ans.body, Str(<<>>)))
        score == get(ans.score, Num(0))
    IN  IF body.raised THEN body
        ELSE Ok(Concat(<< <<"\n", "*", "*", "S", "c", "o", "r", "e", ":", "*", "*", " ">>,
                          Fmt(score), <<"\n">>, body.val, <<"\n", "\n", "-", "-", "-">> >>))

\* return "\n\n".join(results), or the exception the loop raised
joined(loop) ==
    IF loop.raised THEN except_Exception(loop.val)
    ELSE Returned(join(Sep, loop.val), loop.val)

\* stackoverflow_search_questions after data = await http_get(url, params)
stackoverflow_search_questions(r) ==
    IF r.raised THEN except_Exception(r.val)
    ELSE IF data_get_items(r.data).raised THEN except_Exception(data_get_items(r.data).val)
    ELSE IF items_falsy(r.data) THEN Returned(NoQuestionsMsg, <<>>)
    ELSE joined(for_each([k \in 1..Len(r.data.items.l) |-> question_entry(r.data.items.l[k])]))

\* items = [i for i in data.get("items", []) if i.get("item_type") == "answer"]
answer_items(l) == SelectSeq(l, LAMBDA i : get_none(i.item_type) = Str(<<"a", "n", "s", "w", "e", "r">>))

\* stackoverflow_search_answers after data = await http_get(url, params):
\* data.get("items", []) is None for a null items, and iterating None raises
stackoverflow_search_answers(team, r) ==
    IF r.raised THEN except_Exception(r.val)
    ELSE IF data_get_items(r.data).raised THEN except_Exception(data_get_items(r.data).val)
    ELSE IF r.data.items.t = "null" THEN except_Exception(<<"[TypeError]">>)
    ELSE LET items == answer_items(r.data.items.l)
         IN  IF items = <<>> THEN Returned(NoAnswersMsg, <<>>)
             ELSE joined(for_each([k \in 1..Len(items) |-> answer_entry(team, items[k])]))

\* stackoverflow_search_excerpts after data = await http_get(url, params)
stackoverflow_search_excerpts(team, r) ==
    IF r.raised THEN except_Exception(r.val)
    ELSE IF data_get_items(r.data).raised THEN except_Exception(data_get_items(r.data).val)
    ELSE IF items_falsy(r.data) THEN Returned(NoExcerptsMsg, <<>>)
    ELSE joined(for_each([k \in 1..Len(r.data.items.l) |->
                             excerpt_entry(team, r.data.items.l[k])]))

\* stackoverflow_search_by_tags after data = await http_get(url, params)
stackoverflow_search_by_tags(r) ==
    IF r.raised THEN except_Exception(r.val)
    ELSE IF data_get_items(r.data).raised THEN except_Exception(data_get_items(r.data).val)
    ELSE IF items_falsy(r.data) THEN Returned(NoTaggedMsg, <<>>)
    ELSE joined(for_each([k \in 1..Len(r.data.items.l) |-> tagged_entry(r.data.items.l[k])]))

\* stackoverflow_fetch_question_by_id after both awaits: q is the outcome of
\* the question request, which did not raise, a that of the answers request
stackoverflow_fetch_question_by_id(q, a) ==
    IF a.raised THEN except_Exception(a.val)
    ELSE IF data_get_items(q.data).raised THEN except_Exception(data_get_items(q.data).val)
    ELSE IF items_falsy(q.data) THEN Returned(QuestionNotFoundMsg, <<>>)
    ELSE LET question == q.data.items.l[1]
             title == clean_html_call(get(question.title, Str(<<>>)))
             body == clean_html_call(get(question.body, Str(<<>>)))
             head == Concat(<< <<"#", "#", " ">>, title.val, Sep, body.val, Sep >>)
             answers == IF a.data.items.t = "list" THEN a.data.items.l ELSE <<>>
             loop == for_each([k \in 1..Len(answers) |-> score_entry(answers[k])])
         IN  IF title.raised THEN except_Exception(title.val)
             ELSE IF body.raised THEN except_Exception(body.val)
             ELSE IF data_get_items(a.data).raised
             THEN except_Exception(data_get_items(a.data).val)
             ELSE IF answers = <<>>
             THEN Returned(head \o <<"\n", "\n", "_", "N", "o", " ", "a", "n", "s", "w", "e",
                                     "r", "s", " ", "f", "o", "u", "n", "d", ".", "_">>, <<>>)
             ELSE IF loop.raised THEN except_Exception(loop.val)
             ELSE Returned(head \o <<"\n", "\n", "#", "#", "#", " ", "T", "o", "p", " ", "A",
                                     "n", "s", "w", "e", "r", "s", ":", "\n">>
                                \o Concat(loop.val), loop.val)

----------------------------------------------------------------------------
(* What the API can answer.                                                *)

Item(title, body, excerpt, link, question_id, score, item_type) ==
    [title |-> title, body |-> body, excerpt |-> excerpt, link |-> link,
     question_id |-> question_id, score |-> score, item_type |-> item_type]

AnswerType == Str(<<"a", "n", "s", "w", "e", "r">>)
QuestionType == Str(<<"q", "u", "e", "s", "t", "i", "o", "n">>)

\* items of /search/advanced, /questions and /questions/{id}
QuestionPool ==
    { Item(Str(<<"<", "p", ">", "a", "<", "/", "p", ">">>),
           Str(<<"<", "s", "t", "r", "o", "n", "g", ">", "b", "<", "/", "s", "t", "r", "o",
                 "n", "g", ">">>),
           Absent, Str(<<"u">>), Num(7), Absent, Absent),
      Item(Absent, Absent, Absent, Absent, Absent, Absent, Absent),
      Item(Str(<<"<", "u", "l", ">">>), Str(<<"a", "<", "/", "p", ">", "b">>),
           Absent, Absent, Num(8), Absent, Absent),
      Item(Null, Str(<<"b">>), Absent, Str(<<"u">>), Num(9), Absent, Absent),
      Item(Str(<<"&", "l", "t", ";", "e", "m", "&", "g", "t", ";", "b">>), Absent,
           Absent, Null, Absent, Absent, Absent) }

\* items of /search/excerpts
ExcerptPool ==
    { Item(Absent, Absent, Str(<<"<", "c", "o", "d", "e", ">", "x", "<", "/", "c", "o", "d",
                                 "e", ">">>),
           Absent, Num(7), Absent, AnswerType),
      Item(Str(<<"<", "p", ">", "a", "<", "/", "p", ">">>), Absent, Str(<<"b">>),
           Absent, Num(12), Absent, QuestionType),
      Item(Absent, Absent, Absent, Absent, Absent, Absent, AnswerType),
      Item(Str(<<"<", "u", "l", ">">>), Absent, Str(<<"a", "<", "/", "p", ">", "b">>),
           Absent, Num(0), Absent, Absent),
      Item(Absent, Absent, Null, Absent, Null, Absent, AnswerType),
      Item(Absent, Absent, Str(<<"c">>), Absent, Num(0), Absent, AnswerType),
      Item(Str(<<"t">>), Absent, Str(<<"d">>), Absent, Str(<<"9">>), Absent,
           Str(<<"<", "e", "m", ">", "w">>)) }

\* items of /questions/{id}/answers
AnswerPool ==
    { Item(Absent, Str(<<"<", "p", ">", "x", "<", "/", "p", ">">>), Absent, Absent, Absent,
           Num(3), Absent),
      Item(Absent, Absent, Absent, Absent, Absent, Absent, Absent),
      Item(Absent, Null, Absent, Absent, Absent, Num(0), Absent),
      Item(Absent, Str(<<"<", "u", "l", ">", "y">>), Absent, Absent, Absent, Num(10),
           Absent) }

Pool(path) ==
    IF path = "/search/excerpts" THEN ExcerptPool
    ELSE IF path = "/questions/{question_id}/answers" THEN AnswerPool
    ELSE QuestionPool

ItemLists(pool) == UNION {[1..n -> pool] : n \in 0..MaxItems}

\* every answer to a request for path: a failure, a body that is no dict, a
\* dict without items or with a null items, or a dict with an items list
Responses(path) ==
    {WireFail(k) : k \in {"network", "timeout", "status", "notjson"}}
    \cup {WireOk(Body("list", "absent", <<>>)), WireOk(Body("dict", "absent", <<>>)),
          WireOk(Body("dict", "null", <<>>))}
    \cup {WireOk(Body("dict", "list", l)) : l \in ItemLists(Pool(path))}

\* the answers the API gives while several invocations run: a failure, an
\* empty list, and a list of one item
FewResponses(path) ==
    {WireFail("status"), WireOk(Body("dict", "list", <<>>))}
    \cup {WireOk(Body("dict", "list", <<x>>)) :
            x \in {y \in Pool(path) : y.question_id = Num(7) \/ y.score = Num(3)}}

\* the answers to a request, by endpoint
SearchAdvancedResponses == Responses("/search/advanced")
SearchExcerptsResponses == Responses("/search/excerpts")
QuestionsResponses == Responses("/questions")
QuestionResponses == Responses("/questions/{question_id}")
AnswersResponses == Responses("/questions/{question_id}/answers")
FewSearchAdvancedResponses == FewResponses("/search/advanced")
FewSearchExcerptsResponses == FewResponses("/search/excerpts")
FewQuestionsResponses == FewResponses("/questions")
FewQuestionResponses == FewResponses("/questions/{question_id}")
FewAnswersResponses == FewResponses("/questions/{question_id}/answers")

\* the query, tags and question_id arguments the transport passes
Args == {<<"x">>, <<"4", "2">>}

\* TEAM = os.environ.get("TEAM"): the variable's value, or None when unset
TeamValues == {Str(<<"t", "m">>), Null}

----------------------------------------------------------------------------
(* The requests the handlers make.                                         *)

Request(path, id, order, sort, q, tagged, team, pagesize, filter) ==
    [path |-> path, id |-> id, order |-> order, sort |-> sort, q |-> q,
     tagged |-> tagged, team |-> team, pagesize |-> pagesize, filter |-> filter]

search_questions_request(team, query) ==
    Request("/search/advanced", <<>>, "desc", "relevance", query, <<>>, team, 5, "!9_bDE(fI5")

search_answers_request(team, query) ==
    Request("/search/excerpts", <<>>, "desc", "relevance", query, <<>>, team, 5, "")

search_excerpts_request(team, query) ==
    Request("/search/excerpts", <<>>, "desc", "relevance", query, <<>>, team, 5, "")

question_request(team, question_id) ==
    Request("/questions/{question_id}", question_id, "", "", <<>>, <<>>, team, 0, "!9_bDE(fI5")

answers_request(team, question_id) ==
    Request("/questions/{question_id}/answers", question_id, "", "", <<>>, <<>>, team, 0,
            "!9_bDE(fI5")

search_by_tags_request(team, tags) ==
    Request("/questions", <<>>, "desc", "activity", <<>>, tags, team, 5, "")

----------------------------------------------------------------------------
(* The invocations.  A frame holds what one invocation of a handler keeps  *)
(* across its suspensions: where it is (pc), its argument, the local       *)
(* q_data of stackoverflow_fetch_question_by_id, and what it returned.     *)
(* sent and got record the requests it made and the answers it was given.  *)

Idle ==
    [pc |-> "idle", tool |-> "", arg |-> <<>>, sent |-> <<>>, got |-> <<>>,
     q_data |-> HttpOk(NoBody), result |-> NoResult]

\* a handler is called: it runs to its first await, inside http_get
Called(tool, arg, request) ==
    [pc |-> "await", tool |-> tool, arg |-> arg, sent |-> <<request>>, got |-> <<>>,
     q_data |-> HttpOk(NoBody), result |-> NoResult]

\* a handler runs to its return
Finished(frame, wire, result) ==
    [frame EXCEPT !.pc = "done", !.got = @ \o <<wire>>, !.result = result]

\* q_data kept in a module global, which every invocation writes and reads
store_shared(frames, i, frame) ==
    [j \in DOMAIN frames |->
        IF j = i THEN frame ELSE [frames[j] EXCEPT !.q_data = frame.q_data]]

\* the locals of an invocation are its own: a step of invocation i changes
\* frame i and no other
store(frames, i, frame) == [frames EXCEPT ![i] = frame]

\* a handler that goes on to its second request after a failed first one
goes_on_regardless(r) == TRUE

\* whether stackoverflow_fetch_question_by_id goes on to its second request:
\* an exception of the first http_get leaves the try block
goes_on(r) == ~r.raised

Suspended(i, tool) == inv[i].pc = "await" /\ inv[i].tool = tool

search_questions_call(i, query) ==
    /\ inv[i].pc = "idle"
    /\ inv' = store(inv, i, Called("stackoverflow_search_questions", query,
                                   search_questions_request(TEAM, query)))
    /\ UNCHANGED <<TEAM, html_text, text, cpc>>

search_questions_resume(i, wire) ==
    /\ Suspended(i, "stackoverflow_search_questions")
    /\ inv' = store(inv, i, Finished(inv[i], wire,
                                     stackoverflow_search_questions(http_get(wire))))
    /\ UNCHANGED <<TEAM, html_text, text, cpc>>

search_answers_call(i, query) ==
    /\ inv[i].pc = "idle"
    /\ inv' = store(inv, i, Called("stackoverflow_search_answers", query,
                                   search_answers_request(TEAM, query)))
    /\ UNCHANGED <<TEAM, html_text, text, cpc>>

search_answers_resume(i, wire) ==
    /\ Suspended(i, "stackoverflow_search_answers")
    /\ inv' = store(inv, i, Finished(inv[i], wire,
                                     stackoverflow_search_answers(TEAM, http_get(wire))))
    /\ UNCHANGED <<TEAM, html_text, text, cpc>>

search_excerpts_call(i, query) ==
    /\ inv[i].pc = "idle"
    /\ inv' = store(inv, i, Called("stackoverflow_search_excerpts", query,
                                   search_excerpts_request(TEAM, query)))
    /\ UNCHANGED <<TEAM, html_text, text, cpc>>

search_excerpts_resume(i, wire) ==
    /\ Suspended(i, "stackoverflow_search_excerpts")
    /\ inv' = store(inv, i, Finished(inv[i], wire,
                                     stackoverflow_search_excerpts(TEAM, http_get(wire))))
    /\ UNCHANGED <<TEAM, html_text, text, cpc>>

search_by_tags_call(i, tags) ==
    /\ inv[i].pc = "idle"
    /\ inv' = store(inv, i, Called("stackoverflow_search_by_tags", tags,
                                   search_by_tags_request(TEAM, tags)))
    /\ UNCHANGED <<TEAM, html_text, text, cpc>>

search_by_tags_resume(i, wire) ==
    /\ Suspended(i, "stackoverflow_search_by_tags")
    /\ inv' = store(inv, i, Finished(inv[i], wire,
                                     stackoverflow_search_by_tags(http_get(wire))))
    /\ UNCHANGED <<TEAM, html_text, text, cpc>>

fetch_question_by_id_call(i, question_id) ==
    /\ inv[i].pc = "idle"
    /\ inv' = store(inv, i, Called("stackoverflow_fetch_question_by_id", question_id,
                                   question_request(TEAM, question_id)))
    /\ UNCHANGED <<TEAM, html_text, text, cpc>>

\* q_data = await http_get(q_url, ...): on an exception the handler returns
\* the error string, else it goes on to await http_get(a_url, ...)
fetch_question_by_id_question(i, wire) ==
    /\ Suspended(i, "stackoverflow_fetch_question_by_id")
    /\ LET r == http_get(wire)
       IN  inv' = store(inv, i,
                    IF goes_on(r)
                    THEN [inv[i] EXCEPT !.pc = "await_answers", !.got = @ \o <<wire>>,
                                        !.q_data = r,
                                        !.sent = @ \o <<answers_request(TEAM, inv[i].arg)>>]
                    ELSE Finished(inv[i], wire, except_Exception(r.val)))
    /\ UNCHANGED <<TEAM, html_text, text, cpc>>

\* a_data = await http_get(a_url, ...), and the rest of the handler
fetch_question_by_id_answers(i, wire) ==
    /\ inv[i].pc = "await_answers"
    /\ inv' = store(inv, i, Finished(inv[i], wire,
                   stackoverflow_fetch_question_by_id(inv[i].q_data, http_get(wire))))
    /\ UNCHANGED <<TEAM, html_text, text, cpc>>

\* the transport takes the returned string; nothing of the invocation is kept
Return(i) ==
    /\ inv[i].pc = "done"
    /\ inv' = store(inv, i, Idle)
    /\ UNCHANGED <<TEAM, html_text, text, cpc>>

Init ==
    /\ TEAM \in TeamValues
    /\ inv = [i \in {1} |-> Idle]
    /\ html_text = <<>>
    /\ text = <<>>
    /\ cpc = "off"

Next ==
    \/ \E i \in DOMAIN inv : \E a \in Args : search_questions_call(i, a)
    \/ \E i \in DOMAIN inv : \E a \in Args : search_answers_call(i, a)
    \/ \E i \in DOMAIN inv : \E a \in Args : search_excerpts_call(i, a)
    \/ \E i \in DOMAIN inv : \E a \in Args : search_by_tags_call(i, a)
    \/ \E i \in DOMAIN inv : \E a \in Args : fetch_question_by_id_call(i, a)
    \/ \E i \in DOMAIN inv : \E wire \in SearchAdvancedResponses :
            search_questions_resume(i, wire)
    \/ \E i \in DOMAIN inv : \E wire \in SearchExcerptsResponses :
            search_answers_resume(i, wire)
    \/ \E i \in DOMAIN inv : \E wire \in SearchExcerptsResponses :
            search_excerpts_resume(i, wire)
    \/ \E i \in DOMAIN inv : \E wire \in QuestionsResponses :
            search_by_tags_resume(i, wire)
    \/ \E i \in DOMAIN inv : \E wire \in QuestionResponses :
            fetch_question_by_id_question(i, wire)
    \/ \E i \in DOMAIN inv : \E wire \in AnswersResponses :
            fetch_question_by_id_answers(i, wire)
    \/ \E i \in DOMAIN inv : Return(i)

Spec == Init /\ [][Next]_vars

\* several invocations, interleaved at their awaits
InitConcurrent ==
    /\ TEAM \in TeamValues
    /\ inv = [i \in 1..MaxConcurrent |-> Idle]
    /\ html_text = <<>>
    /\ text = <<>>
    /\ cpc = "off"

NextConcurrent ==
    \/ \E i \in DOMAIN inv : \E a \in Args : search_questions_call(i, a)
    \/ \E i \in DOMAIN inv : \E a \in Args : search_answers_call(i, a)
    \/ \E i \in DOMAIN inv : \E a \in Args : search_excerpts_call(i, a)
    \/ \E i \in DOMAIN inv : \E a \in Args : search_by_tags_call(i, a)
    \/ \E i \in DOMAIN inv : \E a \in Args : fetch_question_by_id_call(i, a)
    \/ \E i \in DOMAIN inv : \E wire \in FewSearchAdvancedResponses :
            search_questions_resume(i, wire)
    \/ \E i \in DOMAIN inv : \E wire \in FewSearchExcerptsResponses :
            search_answers_resume(i, wire)
    \/ \E i \in DOMAIN inv : \E wire \in FewSearchExcerptsResponses :
            search_excerpts_resume(i, wire)
    \/ \E i \in DOMAIN inv : \E wire \in FewQuestionsResponses :
            search_by_tags_resume(i, wire)
    \/ \E i \in DOMAIN inv : \E wire \in FewQuestionResponses :
            fetch_question_by_id_question(i, wire)
    \/ \E i \in DOMAIN inv : \E wire \in FewAnswersResponses :
            fetch_question_by_id_answers(i, wire)
    \/ \E i \in DOMAIN inv : Return(i)

SpecConcurrent == InitConcurrent /\ [][NextConcurrent]_vars

----------------------------------------------------------------------------
(* What the claims speak of.                                               *)

MultiItemTools ==
    {"stackoverflow_search_questions", "stackoverflow_search_answers",
     "stackoverflow_search_excerpts", "stackoverflow_search_by_tags"}

Done(i) == inv[i].pc = "done"

\* the first answer given to invocation i is a dict with an items list
GotItems(i) ==
    /\ Len(inv[i].got) >= 1
    /\ inv[i].got[1].kind = "ok"
    /\ inv[i].got[1].body.kind = "dict"
    /\ inv[i].got[1].body.items.t = "list"

FirstItems(i) == inv[i].got[1].body.items.l

\* invocation i returned a rendering of one entry or more
Rendered(i) == Done(i) /\ inv[i].result.kind = "str" /\ inv[i].result.results # <<>>

IsError(i) == inv[i].result.kind = "str" /\ StartsWith(inv[i].result.s, HttpErrorPrefix)

OnlyAnswers(l) == SelectSeq(l, LAMBDA x : x.item_type = AnswerType)

\* the items a multi-item tool has to render, in response order
ToRender(i) ==
    IF inv[i].tool = "stackoverflow_search_answers" THEN OnlyAnswers(FirstItems(i))
    ELSE FirstItems(i)

Sentinel(tool) ==
    CASE tool = "stackoverflow_search_questions" -> NoQuestionsMsg
      [] tool = "stackoverflow_search_answers" -> NoAnswersMsg
      [] tool = "stackoverflow_search_excerpts" -> NoExcerptsMsg
      [] tool = "stackoverflow_search_by_tags" -> NoTaggedMsg
      [] OTHER -> QuestionNotFoundMsg

\* the cleaned text of a field that is a string, or absent
Cleaned(field) == clean_html(get(field, Str(<<>>)).s)

\* the entry of an item, per the rendering table: title, body and excerpt
\* cleaned, the other fields as received
EntryOf(tool, team, x) ==
    CASE tool = "stackoverflow_search_questions" ->
            <<"#", "#", "#", " ">> \o Cleaned(x.title) \o <<"\n">> \o Cleaned(x.body)
            \o ViewQuestion \o Fmt(get(x.link, Str(Hash))) \o <<")">>
      [] tool = "stackoverflow_search_answers" ->
            <<"*", "*", "A", "n", "s", "w", "e", "r", " ", "E", "x", "c", "e", "r", "p", "t",
              ":", "*", "*", "\n">> \o Cleaned(x.excerpt)
            \o ViewAnswer \o constructed_link(team, x) \o <<")">>
      [] tool = "stackoverflow_search_excerpts" ->
            <<"*", "*", "T", "y", "p", "e", ":", "*", "*", " ">>
            \o Fmt(get(x.item_type, Str(<<"u", "n", "k", "n", "o", "w", "n">>)))
            \o <<"\n", "*", "*", "T", "i", "t", "l", "e", ":", "*", "*", " ">>
            \o Cleaned(x.title) \o <<"\n">> \o Cleaned(x.excerpt)
            \o ViewFullPost \o constructed_link(team, x) \o <<")">>
      [] tool = "stackoverflow_search_by_tags" ->
            <<"*", "*">> \o Cleaned(x.title) \o <<"*", "*">>
            \o ViewQuestion \o Fmt(get(x.link, Str(Hash))) \o <<")">>
      [] OTHER ->
            <<"\n", "*", "*", "S", "c", "o", "r", "e", ":", "*", "*", " ">>
            \o Fmt(get(x.score, Num(0))) \o <<"\n">> \o Cleaned(x.body)
            \o <<"\n", "\n", "-", "-", "-">>

\* the tags clean_html has a rule for, but for <p>
ReplacedTags ==
    {TagPEnd, TagCode, TagCodeEnd, TagStrong, TagStrongEnd, TagEm, TagEmEnd}

\* the markup the model's API responses carry
MarkupTags == ReplacedTags \cup {TagP, <<"<", "u", "l", ">">>}

----------------------------------------------------------------------------
(* C1: a handler never raises, and when a request of its own failed (a     *)
(* network failure, a timeout, a non-2xx status, a body that is no JSON)   *)
(* the string it returns starts with "HTTP Error: ".                       *)

C1_FailuresBecomeErrorStrings ==
    \A i \in DOMAIN inv :
        Done(i) =>
            /\ inv[i].result.kind = "str"
            /\ (\E k \in 1..Len(inv[i].got) : inv[i].got[k].kind # "ok") => IsError(i)

\* the answers request of a fetch times out after its question request succeeded
C1_Witness ==
    \E i \in DOMAIN inv :
        /\ Done(i)
        /\ inv[i].tool = "stackoverflow_fetch_question_by_id"
        /\ Len(inv[i].got) = 2
        /\ inv[i].got[1].kind = "ok"
        /\ inv[i].got[2].kind = "timeout"
        /\ IsError(i)

(* C2: when the API returns an empty items list (for fetch_question_by_id, *)
(* an empty question list), the handler returns exactly the tool's         *)
(* sentinel message.                                                       *)

C2_EmptyItemsGiveSentinel ==
    \A i \in DOMAIN inv :
        (Done(i) /\ GotItems(i) /\ FirstItems(i) = <<>>) =>
            (inv[i].result.kind = "str" /\ inv[i].result.s = Sentinel(inv[i].tool))

(* C2, amended: the same, but for fetch_question_by_id only when its      *)
(* answers request did not fail; when it failed, the handler returns the   *)
(* "HTTP Error: " string although the question list is empty.              *)

C2_EmptyItemsGiveSentinelUnlessFailure ==
    \A i \in DOMAIN inv :
        (Done(i) /\ GotItems(i) /\ FirstItems(i) = <<>>) =>
            IF Len(inv[i].got) = 2 /\ inv[i].got[2].kind # "ok"
            THEN IsError(i)
            ELSE /\ inv[i].result.kind = "str"
                 /\ inv[i].result.s = Sentinel(inv[i].tool)
                 /\ inv[i].result.results = <<>>

\* an empty question list, with answers: "Question not found."
C2_Witness ==
    \E i \in DOMAIN inv :
        /\ Done(i)
        /\ inv[i].tool = "stackoverflow_fetch_question_by_id"
        /\ GotItems(i)
        /\ FirstItems(i) = <<>>
        /\ inv[i].got[2].kind = "ok"
        /\ inv[i].got[2].body.items.l # <<>>
        /\ inv[i].result.s = QuestionNotFoundMsg

(* C3: when every answer of the API is a dict with an items list, a field  *)
(* of an item that is absent or malformed is tolerated: the handler does   *)
(* not return an "HTTP Error: " string.                                    *)

C3_MalformedFieldsTolerated ==
    \A i \in DOMAIN inv :
        (Done(i) /\ \A k \in 1..Len(inv[i].got) :
                        /\ inv[i].got[k].kind = "ok"
                        /\ inv[i].got[k].body.kind = "dict"
                        /\ inv[i].got[k].body.items.t = "list")
        => ~IsError(i)

(* C4: search_answers renders exactly the items whose item_type is         *)
(* "answer", in response order, and returns "No relevant answers found."   *)
(* when no item is one.                                                    *)

C4_OnlyAnswersRendered ==
    \A i \in DOMAIN inv :
        (Done(i) /\ inv[i].tool = "stackoverflow_search_answers" /\ GotItems(i)) =>
            LET answers == OnlyAnswers(FirstItems(i))
                entries == inv[i].result.results
            IN  IF answers = <<>>
                THEN inv[i].result.s = NoAnswersMsg /\ entries = <<>>
                ELSE /\ Len(entries) = Len(answers)
                     /\ \A k \in 1..Len(answers) :
                            entries[k] = EntryOf(inv[i].tool, TEAM, answers[k])

(* C5: in search_answers and search_excerpts the link of every rendered    *)
(* item is the question URL whenever the item has a question_id, whatever  *)
(* its value, and "#" only when it has none.                               *)

C5_LinkWheneverQuestionId ==
    \A i \in DOMAIN inv :
        (Rendered(i) /\ inv[i].tool \in {"stackoverflow_search_answers",
                                         "stackoverflow_search_excerpts"}) =>
            \A k \in 1..Len(inv[i].result.results) :
                LET x == ToRender(i)[k]
                    link == IF x.question_id.t # "absent"
                            THEN question_url(TEAM, x.question_id)
                            ELSE Hash
                IN  EndsWith(inv[i].result.results[k], <<"(">> \o link \o <<")">>)

(* C5, amended: the link of every rendered item is the question URL       *)
(* whenever the item's question_id is a number other than 0 or a string    *)
(* other than "", and "#" when it is absent, null, 0 or "".                *)

C5_LinkWhenQuestionIdTruthy ==
    \A i \in DOMAIN inv :
        (Rendered(i) /\ inv[i].tool \in {"stackoverflow_search_answers",
                                         "stackoverflow_search_excerpts"}) =>
            \A k \in 1..Len(inv[i].result.results) :
                LET x == ToRender(i)[k]
                    usable == \/ x.question_id.t = "num" /\ x.question_id.n # 0
                              \/ x.question_id.t = "str" /\ x.question_id.s # <<>>
                    link == IF usable THEN question_url(TEAM, x.question_id) ELSE Hash
                IN  EndsWith(inv[i].result.results[k], <<"(">> \o link \o <<")">>)

\* an item with question_id 12 gets the URL, one with question_id 0 gets "#"
C5_Witness ==
    \E i \in DOMAIN inv :
        /\ Rendered(i)
        /\ inv[i].tool = "stackoverflow_search_excerpts"
        /\ TEAM = Str(<<"t", "m">>)
        /\ Len(inv[i].result.results) >= 2
        /\ FirstItems(i)[1].question_id = Num(12)
        /\ EndsWith(inv[i].result.results[1],
                    <<"(", "h", "t", "t", "p", "s", ":", "/", "/", "t", "m", ".", "s", "t",
                      "a", "c", "k", "o", "v", "e", "r", "f", "l", "o", "w", "t", "e", "a",
                      "m", "s", ".", "c", "o", "m", "/", "c", "/", "t", "m", "/", "q", "u",
                      "e", "s", "t", "i", "o", "n", "s", "/", "1", "2", ")">>)
        /\ FirstItems(i)[2].question_id = Num(0)
        /\ EndsWith(inv[i].result.results[2], <<"(", "#", ")">>)

(* C6, as the spec has it: no markup of the API response appears in a      *)
(* string a handler returns.                                               *)

C6_NoRawHtml ==
    \A i \in DOMAIN inv :
        Done(i) => \A tag \in MarkupTags : ~Contains(inv[i].result.s, tag)

(* C6, amended: in every rendering, each title, body and excerpt is        *)
(* included as clean_html gives it, with none of the tags </p>, <code>,    *)
(* </code>, <strong>, </strong>, <em>, </em> left in it, and link,         *)
(* item_type and score are included as received.                           *)

C6_TextFieldsCleaned ==
    \A i \in DOMAIN inv :
        /\ (Rendered(i) /\ inv[i].tool \in MultiItemTools) =>
              \A k \in 1..Len(inv[i].result.results) :
                  LET x == ToRender(i)[k]
                  IN  /\ inv[i].result.results[k] = EntryOf(inv[i].tool, TEAM, x)
                      /\ \A f \in {x.title, x.body, x.excerpt} : \A tag \in ReplacedTags :
                             ~Contains(Cleaned(f), tag)
        /\ (Done(i) /\ inv[i].tool = "stackoverflow_fetch_question_by_id"
                /\ Len(inv[i].got) = 2 /\ ~IsError(i) /\ FirstItems(i) # <<>>) =>
              LET x == FirstItems(i)[1]
                  answers == inv[i].got[2].body.items.l
              IN  /\ StartsWith(inv[i].result.s,
                                <<"#", "#", " ">> \o Cleaned(x.title) \o Sep
                                \o Cleaned(x.body) \o Sep)
                  /\ Len(inv[i].result.results) = Len(answers)
                  /\ \A k \in 1..Len(answers) :
                         /\ inv[i].result.results[k] = EntryOf(inv[i].tool, TEAM, answers[k])
                         /\ \A tag \in ReplacedTags : ~Contains(Cleaned(answers[k].body), tag)

\* a title "<p>a</p>" and a body "<strong>b</strong>" are rendered cleaned
C6_Witness ==
    \E i \in DOMAIN inv :
        /\ Rendered(i)
        /\ inv[i].tool = "stackoverflow_search_questions"
        /\ FirstItems(i)[1].title = Str(<<"<", "p", ">", "a", "<", "/", "p", ">">>)
        /\ StartsWith(inv[i].result.s,
                      <<"#", "#", "#", " ", "a", "\n", "*", "*", "b", "*", "*", "\n">>)

RECURSIVE EntryStart(_, _)
\* where entry k starts in the joined string, counted from 0
EntryStart(entries, k) ==
    IF k = 1 THEN 0 ELSE EntryStart(entries, k - 1) + Len(entries[k - 1]) + 2

(* C7: a multi-item tool that renders n >= 1 items returns the n entries,  *)
(* in response order, with exactly one blank line between consecutive      *)
(* entries: nothing before the first entry, nothing after the last.        *)

C7_JoinedByOneBlankLine ==
    \A i \in DOMAIN inv :
        (Rendered(i) /\ inv[i].tool \in MultiItemTools) =>
            LET entries == inv[i].result.results
                n == Len(entries)
                s == inv[i].result.s
            IN  /\ n = Len(ToRender(i))
                /\ Len(s) = EntryStart(entries, n) + Len(entries[n])
                /\ \A k \in 1..n :
                       /\ entries[k] = EntryOf(inv[i].tool, TEAM, ToRender(i)[k])
                       /\ SubSeq(s, EntryStart(entries, k) + 1,
                                 EntryStart(entries, k) + Len(entries[k])) = entries[k]
                       /\ k > 1 => SubSeq(s, EntryStart(entries, k) - 1,
                                          EntryStart(entries, k)) = Sep

\* as many entries as the longest items list has items
C7_Witness ==
    \E i \in DOMAIN inv :
        /\ Rendered(i)
        /\ inv[i].tool = "stackoverflow_search_by_tags"
        /\ Len(inv[i].result.results) = MaxItems
        /\ inv[i].result.results[1] # inv[i].result.results[2]

\* the outcome of running a handler alone, on the answers got
RunAlone(tool, team, got) ==
    CASE tool = "stackoverflow_search_questions" ->
            stackoverflow_search_questions(http_get(got[1]))
      [] tool = "stackoverflow_search_answers" ->
            stackoverflow_search_answers(team, http_get(got[1]))
      [] tool = "stackoverflow_search_excerpts" ->
            stackoverflow_search_excerpts(team, http_get(got[1]))
      [] tool = "stackoverflow_search_by_tags" ->
            stackoverflow_search_by_tags(http_get(got[1]))
      [] OTHER ->
            IF http_get(got[1]).raised THEN except_Exception(http_get(got[1]).val)
            ELSE stackoverflow_fetch_question_by_id(http_get(got[1]), http_get(got[2]))

\* the first request of a handler run alone
FirstRequest(tool, team, arg) ==
    CASE tool = "stackoverflow_search_questions" -> search_questions_request(team, arg)
      [] tool = "stackoverflow_search_answers" -> search_answers_request(team, arg)
      [] tool = "stackoverflow_search_excerpts" -> search_excerpts_request(team, arg)
      [] tool = "stackoverflow_search_by_tags" -> search_by_tags_request(team, arg)
      [] OTHER -> question_request(team, arg)

(* C8: whatever the interleaving, what an invocation requests, keeps and   *)
(* returns is what it requests, keeps and returns when run alone on the    *)
(* same argument, configuration and answers to its own requests.           *)

C8_InvocationsIndependent ==
    \A i \in DOMAIN inv :
        /\ inv[i].pc # "idle" => inv[i].sent[1] = FirstRequest(inv[i].tool, TEAM, inv[i].arg)
        /\ inv[i].pc = "await_answers" =>
              /\ inv[i].q_data = http_get(inv[i].got[1])
              /\ inv[i].sent[2] = answers_request(TEAM, inv[i].arg)
        /\ Done(i) => inv[i].result = RunAlone(inv[i].tool, TEAM, inv[i].got)

\* one fetch has returned its rendering of a question while another,
\* given an empty question list, is suspended in its answers request
C8_Witness ==
    \E i, j \in DOMAIN inv :
        /\ i # j
        /\ Done(i)
        /\ inv[i].tool = "stackoverflow_fetch_question_by_id"
        /\ FirstItems(i) # <<>>
        /\ StartsWith(inv[i].result.s, <<"#", "#", " ", "a">>)
        /\ inv[j].pc = "await_answers"
        /\ inv[j].q_data.data.items.l = <<>>
        /\ inv[j].arg # inv[i].arg

\* the rule table of the HTML cleaner: tag, replacement
Rules ==
    << <<TagP, <<>> >>, <<TagPEnd, <<"\n", "\n">> >>,
       <<TagCode, <<"U+0060">> >>, <<TagCodeEnd, <<"U+0060">> >>,
       <<TagStrong, <<"*", "*">> >>, <<TagStrongEnd, <<"*", "*">> >>,
       <<TagEm, <<"*">> >>, <<TagEmEnd, <<"*">> >> >>

RECURSIVE ApplyRules(_, _)
\* the rules from the k-th on, applied in order
ApplyRules(s, k) ==
    IF k > Len(Rules) THEN s ELSE ApplyRules(Replace(s, Rules[k][1], Rules[k][2]), k + 1)

ExampleText == <<"H", "e", "l", "l", "o", " ", "*", "*", "w", "o", "r", "l", "d", "*", "*">>

(* C9: clean_html returns, for every string, the whitespace-trimmed result *)
(* of decoding the entities and then applying the eight tag rules in their *)
(* order; tags without a rule are left as they are; "" gives "", and       *)
(* "<p>Hello <strong>world</strong></p>" gives "Hello **world**".          *)

C9_CleanHtmlRules ==
    cpc = "return" =>
        /\ text = strip(ApplyRules(unescape(html_text), 1))
        /\ text = <<>> \/ (text[1] \notin Whitespace /\ text[Len(text)] \notin Whitespace)
        /\ html_text = <<>> => text = <<>>
        /\ html_text = ExampleHtml => text = ExampleText
        /\ html_text = <<"&", "l", "t", ";", "p", ">", "a">> => text = <<"a">>
        /\ html_text = <<"&", "a", "m", "p", ";", "l", "t", ";", "p", ">">>
              => text = <<"&", "l", "t", ";", "p", ">">>
        /\ html_text = <<"<", "<", "p", ">", "/", "p", ">", "a">> => text = <<"a">>
        /\ ("&" \notin Range(html_text)
                /\ \A tag \in ReplacedTags \cup {TagP} : ~Contains(html_text, tag))
              => text = strip(html_text)
        /\ \A tag \in ReplacedTags : ~Contains(text, tag)

C9_Witness ==
    cpc = "return" /\ html_text = ExampleHtml /\ text = ExampleText

(* C10: a fetch_question_by_id invocation requests the question first and  *)
(* the answers only after the question request came back without failure;  *)
(* it requests each of the two at most once, and never the answers when    *)
(* the question request failed.                                            *)

C10_QuestionThenAnswers ==
    \A i \in DOMAIN inv :
        inv[i].tool = "stackoverflow_fetch_question_by_id" =>
            /\ Len(inv[i].sent) \in {1, 2}
            /\ Len(inv[i].got) <= Len(inv[i].sent)
            /\ inv[i].sent[1].path = "/questions/{question_id}"
            /\ Len(inv[i].sent) = 2 =>
                  /\ inv[i].sent[2].path = "/questions/{question_id}/answers"
                  /\ inv[i].got[1].kind = "ok"
            /\ (Len(inv[i].got) >= 1 /\ inv[i].got[1].kind # "ok") =>
                  (Len(inv[i].sent) = 1 /\ Done(i))

\* the question request failed and the handler returned after one request
C10_Witness ==
    \E i \in DOMAIN inv :
        /\ Done(i)
        /\ inv[i].tool = "stackoverflow_fetch_question_by_id"
        /\ inv[i].got[1].kind = "status"
        /\ Len(inv[i].sent) = 1
        /\ IsError(i)

====
